---- MODULE Spec2Model ----
(***************************************************************************)
(* Model of open-rpc-derive/src/rpc_trait.rs: the #[document_rpc]          *)
(* attribute macro.  One macro invocation (rpc_trait) is a pure function   *)
(* of the annotated item; the compiler then splices the returned tokens    *)
(* into the module (scope) the item was written in.  The state is the      *)
(* invocation in progress (its input, its result, the registration list    *)
(* handle_trait computed) and the companion modules the crate holds after  *)
(* the expansions so far.                                                  *)
(***************************************************************************)
EXTENDS Integers, Sequences, FiniteSets, TLC

VARIABLES input, output, method_registrations, modules

vars == <<input, output, method_registrations, modules>>

(***************************************************************************)
(* Bounds of the model.                                                    *)
(***************************************************************************)
\* longest member list of an interface declaration
MaxItems == 2
\* deepest module nesting: scopes are 0 (crate root) .. MaxDepth
MaxDepth == 1

(***************************************************************************)
(* Program constants.                                                      *)
(***************************************************************************)
METADATA_TYPE == "Metadata"

OPENRPC_SCHEMA_MODE_PREFIX == "openrpc_schema_"

UNSUPPORTED_MSG ==
    "The #[document_rpc] custom attribute only works with trait and impl declarations"

UNWRAP_NONE_MSG == "called Option::unwrap() on a None value"

(***************************************************************************)
(* Syntax trees (syn), as far as the macro reads or writes them.           *)
(***************************************************************************)
\* syn::Attribute.  path "rpc" is the annotation the Attribute Model
\* recognizes; name is the name override ("" = none), meta the metadata
\* marker, wellformed whether its arguments have the expected shape.
Attribute(path, name, meta, wellformed) ==
    [path |-> path, name |-> name, meta |-> meta, wellformed |-> wellformed]

DocAttr     == Attribute("doc", "", FALSE, TRUE)
RpcAttr     == Attribute("rpc", "", FALSE, TRUE)
RpcMetaAttr == Attribute("rpc", "", TRUE, TRUE)
RpcNameA    == Attribute("rpc", "a", FALSE, TRUE)
RpcBadAttr  == Attribute("rpc", "", FALSE, FALSE)

\* an absent method body, and a body made of the statements stmts
NoBlock      == [some |-> FALSE, stmts |-> <<>>]
Block(stmts) == [some |-> TRUE, stmts |-> stmts]

\* syn::TraitItemMethod / syn::ImplItemMethod
Method(ident, attrs, inputs, block) ==
    [kind |-> "Method", ident |-> ident, attrs |-> attrs, inputs |-> inputs,
     ret |-> "String", bounds |-> <<>>, block |-> block]

\* syn::TraitItemType
AssocType(ident) ==
    [kind |-> "Type", ident |-> ident, attrs |-> <<>>, inputs |-> <<>>,
     ret |-> "", bounds |-> <<>>, block |-> NoBlock]

\* the members an interface declaration is drawn from; every procedure
\* carries at most one recognized annotation
TraitItemPool ==
    { Method("a", as, <<"&self">>, NoBlock) :
        as \in { <<>>, <<RpcAttr>>, <<DocAttr, RpcMetaAttr>>, <<RpcBadAttr>> } }
    \cup
    { Method("b", as, <<"&self", "x">>, NoBlock) :
        as \in { <<DocAttr>>, <<RpcAttr>>, <<RpcNameA>>, <<RpcBadAttr>> } }
    \cup
    { AssocType(METADATA_TYPE), AssocType("Other") }

BoundedSeq(S, n) == UNION { [1..k -> S] : k \in 0..n }

TraitNames == {"Foo", "Bar"}

\* syn::ItemTrait
ItemTraits ==
    { [ident |-> n, items |-> is] :
        n \in TraitNames, is \in BoundedSeq(TraitItemPool, MaxItems) }

\* Option<(Option<Bang>, Path, For)>, reduced to the path's segments
NoTrait      == [some |-> FALSE, path |-> <<>>]
SomeTrait(p) == [some |-> TRUE, path |-> p]

\* syn::ItemImpl: inherent impls, impls naming the trait by one identifier
\* and impls naming it by a qualified path
ItemImpls ==
    { [trait_ |-> t, self_ty |-> "Server", items |-> is] :
        t \in {NoTrait} \cup { SomeTrait(<<n>>) : n \in TraitNames }
              \cup { SomeTrait(<<"api", "Foo">>) },
        is \in { <<>>, <<Method("a", <<>>, <<"&self">>, Block(<<>>))>> } }

\* every other syn::Item
OtherCategories == {"Struct", "Fn", "Enum"}

OtherItems == { [ident |-> n] : n \in TraitNames }

\* modules of the crate: 0 is the crate root, s > 0 is nested in s - 1
Scopes == 0..MaxDepth

(***************************************************************************)
(* Results.                                                                *)
(***************************************************************************)
Ok(v)          == [tag |-> "Ok", val |-> v]
Err(span, msg) == [tag |-> "Err", span |-> span, msg |-> msg]
Panic(msg)     == [tag |-> "Panic", msg |-> msg]

NoInput     == [category |-> "None"]
NoOutput    == [tag |-> "None"]
NotComputed == [tag |-> "None"]

(***************************************************************************)
(* Collaborators outside rpc_trait.rs (crate::attr, crate::to_gen_schema), *)
(* modelled from their specification.                                      *)
(***************************************************************************)
IsRecognized(a) == a.path = "rpc"

\* RpcMethodAttribute::parse_attr: Ok(None) for a procedure without a
\* recognized annotation, Err for a malformed one, else Ok(Some(attr)) with
\* the raw annotation node and its kind
parse_attr(method) ==
    LET rec == SelectSeq(method.attrs, IsRecognized) IN
    IF rec = <<>> THEN [tag |-> "None"]
    ELSE IF ~rec[1].wellformed THEN [tag |-> "Err", msg |-> "Malformed"]
    ELSE [tag |-> "Some",
          val |-> [attr |-> rec[1],
                   kind |-> [tag |-> "Rpc", has_metadata |-> rec[1].meta,
                             name |-> rec[1].name]]]

\* RpcMethod::name: the exposed name, the override if given, else the
\* declared name
name(rpc_method) ==
    IF rpc_method.attr.kind.name # ""
    THEN rpc_method.attr.kind.name
    ELSE rpc_method.trait_item.ident

MethodDescriptor(registration) ==
    [name      |-> name(registration.method),
     params    |-> Tail(registration.method.trait_item.inputs),
     result    |-> registration.method.trait_item.ret,
     has_metadata |-> registration.has_metadata]

\* generate_schema_method: the gen_schema function, one method descriptor
\* per registration, in order; total over registration lists
generate_schema_method(regs) ==
    Ok([ident |-> "gen_schema",
        methods |-> [i \in 1..Len(regs) |-> MethodDescriptor(regs[i])]])

(***************************************************************************)
(* rpc_trait.rs                                                            *)
(***************************************************************************)
\* RpcTrait::fold_trait_item_method: drops from the procedure the annotation
\* recorded by the first registered method whose declaration equals it.
\* handle_trait never builds an RpcTrait, so no call reaches this fold.
fold_trait_item_method(methods, method) ==
    LET found == SelectSeq(methods, LAMBDA m : m.trait_item = method)
        keep(a) == IF found = <<>> THEN TRUE ELSE found[1].attr.attr # a
    IN  [method EXCEPT !.attrs = SelectSeq(method.attrs, keep)]

\* RpcTrait::fold_trait_item_type: adds the metadata bound to the associated
\* type named METADATA_TYPE.  Not reached either.
fold_trait_item_type(ty) ==
    IF ty.ident = METADATA_TYPE
    THEN [ty EXCEPT !.bounds = Append(@, "_jsonrpc_core::Metadata")]
    ELSE ty

\* lines 45-59: filter_map over the members in declaration order, collected
\* into a Result: the first Err ends the collection and is the result
RECURSIVE collect_methods(_, _)
collect_methods(items, i) ==
    IF i > Len(items) THEN Ok(<<>>)
    ELSE LET trait_item == items[i] IN
         IF trait_item.kind = "Method"
         THEN LET parsed == parse_attr(trait_item) IN
              CASE parsed.tag = "Some" ->
                     LET rest == collect_methods(items, i + 1) IN
                     IF rest.tag = "Err" THEN rest
                     ELSE Ok(<<[attr |-> parsed.val, trait_item |-> trait_item]>>
                             \o rest.val)
                [] parsed.tag = "None" -> collect_methods(items, i + 1)
                [] parsed.tag = "Err"  -> Err(<<i>>, parsed.msg)
         ELSE collect_methods(items, i + 1)

\* a registration builder that hands the registrations back in reverse
compute_method_registrations_reversed(item_trait) ==
    LET methods_result == collect_methods(item_trait.items, 1) IN
    IF methods_result.tag = "Err" THEN methods_result
    ELSE LET methods == methods_result.val
             n == Len(methods)
         IN  Ok([i \in 1..n |->
                   [tag |-> "Standard", method |-> methods[n + 1 - i],
                    has_metadata |-> methods[n + 1 - i].attr.kind.has_metadata]])

\* a best-effort registration builder: a procedure whose annotation fails
\* to parse is dropped like an unannotated one
RECURSIVE collect_methods_lenient(_, _)
collect_methods_lenient(items, i) ==
    IF i > Len(items) THEN <<>>
    ELSE LET trait_item == items[i]
             rest == collect_methods_lenient(items, i + 1)
         IN  IF trait_item.kind = "Method" /\ parse_attr(trait_item).tag = "Some"
             THEN <<[attr |-> parse_attr(trait_item).val,
                     trait_item |-> trait_item]>> \o rest
             ELSE rest

compute_method_registrations_lenient(item_trait) ==
    LET methods == collect_methods_lenient(item_trait.items, 1) IN
    Ok([i \in 1..Len(methods) |->
          [tag |-> "Standard", method |-> methods[i],
           has_metadata |-> methods[i].attr.kind.has_metadata]])

compute_method_registrations(item_trait) ==
    LET methods_result == collect_methods(item_trait.items, 1) IN
    IF methods_result.tag = "Err" THEN methods_result
    ELSE LET methods == methods_result.val IN
         Ok([i \in 1..Len(methods) |->
               [tag |-> "Standard", method |-> methods[i],
                has_metadata |-> methods[i].attr.kind.has_metadata]])

\* a naming function that forgets the interface name
rpc_wrapper_mod_name_prefix_only(ident) == OPENRPC_SCHEMA_MODE_PREFIX

rpc_wrapper_mod_name(ident) == OPENRPC_SCHEMA_MODE_PREFIX \o ident

\* the signature handle_trait appends: #[doc(hidden)] fn schema(&self) -> OpenrpcDocument;
SchemaSignature ==
    [kind |-> "Method", ident |-> "schema",
     attrs |-> <<Attribute("doc", "hidden", FALSE, TRUE)>>,
     inputs |-> <<"&self">>, ret |-> "OpenrpcDocument", bounds |-> <<>>,
     block |-> NoBlock]

\* an interface rewriter that puts the schema signature first
handle_trait_schema_first(rpc_trait_item) ==
    LET regs == compute_method_registrations(rpc_trait_item) IN
    IF regs.tag = "Err" THEN regs
    ELSE
    LET mod_name_ident == rpc_wrapper_mod_name(rpc_trait_item.ident)
        schema_method  == generate_schema_method(regs.val)
    IN  Ok([kind      |-> "trait",
            uses      |-> <<"open_rpc_schema::document::OpenrpcDocument">>,
            mod       |-> [ident |-> mod_name_ident,
                           uses  |-> <<"super::*", "open_rpc_schema::document::*">>,
                           items |-> <<schema_method.val>>],
            reexport  |-> <<"self", mod_name_ident, "gen_schema">>,
            rpc_trait |-> [rpc_trait_item EXCEPT
                             !.items = <<SchemaSignature>> \o @]])

handle_trait(rpc_trait_item) ==
    LET regs == compute_method_registrations(rpc_trait_item) IN
    IF regs.tag = "Err" THEN regs
    ELSE
    LET mod_name_ident == rpc_wrapper_mod_name(rpc_trait_item.ident)
        schema_method  == generate_schema_method(regs.val)
    IN
    IF schema_method.tag = "Err" THEN schema_method
    ELSE Ok([kind      |-> "trait",
             uses      |-> <<"open_rpc_schema::document::OpenrpcDocument">>,
             mod       |-> [ident |-> mod_name_ident,
                            uses  |-> <<"super::*", "open_rpc_schema::document::*">>,
                            items |-> <<schema_method.val>>],
             reexport  |-> <<"self", mod_name_ident, "gen_schema">>,
             rpc_trait |-> [rpc_trait_item EXCEPT
                              !.items = Append(@, SchemaSignature)]])

\* syn::Path::get_ident: the identifier of a path of one plain segment
get_ident(path) ==
    IF Len(path) = 1 THEN [some |-> TRUE, ident |-> path[1]]
    ELSE [some |-> FALSE, ident |-> ""]

handle_impl(rpc_impl) ==
    IF ~rpc_impl.trait_.some THEN Panic(UNWRAP_NONE_MSG)
    ELSE
    LET trait_path == rpc_impl.trait_.path
        trait_ident == get_ident(trait_path)
    IN
    IF ~trait_ident.some THEN Panic(UNWRAP_NONE_MSG)
    ELSE
    LET mod_name_ident == rpc_wrapper_mod_name(trait_ident.ident)
        st == [kind |-> "Method", ident |-> "schema", attrs |-> <<>>,
               inputs |-> <<"&self">>, ret |-> "OpenrpcDocument",
               bounds |-> <<>>,
               block |-> Block(<<[call |-> <<"super", mod_name_ident, "gen_schema">>,
                                  args |-> <<>>]>>)]
    IN  Ok([kind     |-> "impl",
            rpc_impl |-> [rpc_impl EXCEPT !.items = Append(@, st)]])

\* an entry point that looks into the item: an interface without members
\* is turned away like an unsupported item
rpc_trait_by_content(item) ==
    CASE item.category = "Trait" /\ item.node.items # <<>> -> handle_trait(item.node)
      [] item.category = "Impl"  -> handle_impl(item.node)
      [] OTHER                   -> Err(<<>>, UNSUPPORTED_MSG)

\* the entry point: item is [category, node]
rpc_trait(item) ==
    CASE item.category = "Trait" -> handle_trait(item.node)
      [] item.category = "Impl"  -> handle_impl(item.node)
      [] OTHER                   -> Err(<<>>, UNSUPPORTED_MSG)

(***************************************************************************)
(* The state machine: the compiler hands one annotated item of one module  *)
(* to the macro, then splices what the macro returned where the item was.  *)
(***************************************************************************)
Init ==
    /\ input = NoInput
    /\ output = NoOutput
    /\ method_registrations = NotComputed
    /\ modules = {}

\* one call of the entry point on the item node of the given category
Invoke(category, node, scope) ==
    /\ input' = [category |-> category, node |-> node, scope |-> scope]
    /\ output' = rpc_trait([category |-> category, node |-> node])
    /\ method_registrations' =
         IF category = "Trait" THEN compute_method_registrations(node)
         ELSE NotComputed
    /\ UNCHANGED modules

ExpandTrait ==
    /\ input = NoInput
    /\ \E t \in ItemTraits, s \in Scopes : Invoke("Trait", t, s)

ExpandImpl ==
    /\ input = NoInput
    /\ \E i \in ItemImpls, s \in Scopes : Invoke("Impl", i, s)

ExpandOther ==
    /\ input = NoInput
    /\ \E c \in OtherCategories, o \in OtherItems, s \in Scopes :
          Invoke(c, o, s)

\* the returned tokens replace the item in its module; an Err or a panic
\* is a compile error and adds nothing
Splice ==
    /\ input # NoInput
    /\ modules' =
         IF output.tag = "Ok" /\ output.val.kind = "trait"
         THEN modules \cup {[scope |-> input.scope,
                             ident |-> output.val.mod.ident,
                             interface |-> input.node.ident]}
         ELSE modules
    /\ input' = NoInput
    /\ output' = NoOutput
    /\ method_registrations' = NotComputed

Next == ExpandTrait \/ ExpandImpl \/ ExpandOther \/ Splice

Spec == Init /\ [][Next]_vars

(***************************************************************************)
(* Vocabulary of the claims, stated on the syntax alone.                   *)
(***************************************************************************)
Range(seq) == { seq[i] : i \in 1..Len(seq) }

\* a procedure carrying a recognized annotation
IsAnnotated(item) ==
    item.kind = "Method" /\ \E a \in Range(item.attrs) : a.path = "rpc"

\* a procedure whose recognized annotation is malformed
FailsToParse(item) ==
    item.kind = "Method"
    /\ \E a \in Range(item.attrs) : a.path = "rpc" /\ ~a.wellformed

TheAnnotation(item) == CHOOSE a \in Range(item.attrs) : a.path = "rpc"

\* the name an annotated procedure is exposed under
ExposedName(item) ==
    IF TheAnnotation(item).name # "" THEN TheAnnotation(item).name
    ELSE item.ident

TraitRun == input.category = "Trait"
ImplRun  == input.category = "Impl"

AllParse == \A it \in Range(input.node.items) : ~FailsToParse(it)

\* the module a call path written in scope s refers to, if any: super is
\* the module enclosing s, and the crate root has none
Resolves(s, path, m) ==
    /\ path[1] = "super"
    /\ s > 0
    /\ m.scope = s - 1
    /\ m.ident = path[2]

\* the schema procedures of a rewritten implementation
SchemaItems(items) ==
    { i \in 1..Len(items) : items[i].kind = "Method" /\ items[i].ident = "schema" }

(***************************************************************************)
(* C1: after a successful handle_trait, no procedure of the emitted        *)
(* interface still carries the annotation recorded in its registration.    *)
(* Stated as the claim; handle_trait emits the interface with every        *)
(* annotation in place.                                                    *)
(***************************************************************************)
C1_AnnotationsStripped ==
    (TraitRun /\ output.tag = "Ok") =>
        \A r \in Range(method_registrations.val) :
            \A o \in Range(output.val.rpc_trait.items) :
                (o.kind = "Method" /\ o.ident = r.method.trait_item.ident
                 /\ o.inputs = r.method.trait_item.inputs)
                => r.method.attr.attr \notin Range(o.attrs)

(***************************************************************************)
(* C2: two annotated procedures exposing one name make the derivation fail *)
(* with DuplicateName, so a successful derivation has pairwise distinct    *)
(* exposed names.  Stated as the claim.                                    *)
(***************************************************************************)
C2_DuplicateNameRejected ==
    TraitRun =>
        LET annotated == SelectSeq(input.node.items, IsAnnotated)
            dup == \E i, j \in 1..Len(annotated) :
                      i < j /\ ExposedName(annotated[i]) = ExposedName(annotated[j])
        IN  /\ (AllParse /\ dup) =>
                   (output.tag = "Err" /\ output.msg = "DuplicateName")
            /\ (output.tag = "Ok") => ~dup

(***************************************************************************)
(* C3: handle_impl on an implementation without a trait reference returns  *)
(* the error NotAnInterfaceImplementation instead of crashing.  Stated as  *)
(* the claim.                                                              *)
(***************************************************************************)
C3_NotAnInterfaceImplementation ==
    (ImplRun /\ ~input.node.trait_.some) =>
        (output.tag = "Err" /\ output.msg = "NotAnInterfaceImplementation")

(***************************************************************************)
(* C4: in the emitted interface the associated type named Metadata has the *)
(* metadata bound added exactly once, and no other member's bounds change. *)
(* Stated as the claim.                                                    *)
(***************************************************************************)
C4_MetadataBoundInjected ==
    (TraitRun /\ output.tag = "Ok") =>
        \A i \in 1..Len(input.node.items) :
            LET before == input.node.items[i]
                after  == output.val.rpc_trait.items[i]
            IN  after.bounds =
                  IF before.kind = "Type" /\ before.ident = "Metadata"
                  THEN Append(before.bounds, "_jsonrpc_core::Metadata")
                  ELSE before.bounds

(***************************************************************************)
(* C5: when every annotation parses, compute_method_registrations returns  *)
(* one Standard registration per annotated procedure, in declaration       *)
(* order, each holding that procedure and its annotation; unannotated      *)
(* procedures and associated types contribute none.                        *)
(***************************************************************************)
C5_RegistrationsInOrder ==
    (TraitRun /\ AllParse) =>
        /\ method_registrations.tag = "Ok"
        /\ LET annotated == SelectSeq(input.node.items, IsAnnotated)
               regs == method_registrations.val
           IN  /\ Len(regs) = Len(annotated)
               /\ \A i \in 1..Len(regs) :
                    /\ regs[i].tag = "Standard"
                    /\ regs[i].method.trait_item = annotated[i]
                    /\ regs[i].method.attr.attr = TheAnnotation(annotated[i])
                    /\ regs[i].has_metadata = TheAnnotation(annotated[i]).meta

\* two differently named annotated procedures were registered
C5_Witness ==
    /\ TraitRun
    /\ AllParse
    /\ Len(input.node.items) = 2
    /\ method_registrations.tag = "Ok"
    /\ Len(method_registrations.val) = 2
    /\ method_registrations.val[1].method.trait_item.ident = "b"
    /\ method_registrations.val[2].method.trait_item.ident = "a"
    /\ method_registrations.val[2].has_metadata

(***************************************************************************)
(* C6: if any procedure's annotation fails to parse, the derivation fails  *)
(* with an error located at the first failing procedure in declaration     *)
(* order; there is no registration list and no emitted code.               *)
(***************************************************************************)
C6_FailFast ==
    (TraitRun /\ ~AllParse) =>
        LET items == input.node.items
            first == CHOOSE i \in 1..Len(items) :
                        /\ FailsToParse(items[i])
                        /\ \A j \in 1..(i - 1) : ~FailsToParse(items[j])
        IN  /\ method_registrations.tag = "Err"
            /\ output.tag = "Err"
            /\ output.span = <<first>>
            /\ output.msg = "Malformed"

\* a well-formed annotated procedure is followed by a malformed one
C6_Witness ==
    /\ TraitRun
    /\ Len(input.node.items) = 2
    /\ IsAnnotated(input.node.items[1])
    /\ ~FailsToParse(input.node.items[1])
    /\ FailsToParse(input.node.items[2])
    /\ output.tag = "Err"
    /\ output.span = <<2>>

(***************************************************************************)
(* C7: the entry point dispatches on the category of its input alone: an   *)
(* interface declaration gets an outcome of handle_trait, an implementation *)
(* an outcome of handle_impl, anything else the unsupported-target error   *)
(* spanning the whole input and no code.                                   *)
(***************************************************************************)
C7_DispatchByCategory ==
    (input # NoInput) =>
        CASE input.category = "Trait" ->
               \/ output.tag = "Ok" /\ output.val.kind = "trait"
               \/ output.tag = "Err" /\ output.span # <<>>
                  /\ output.msg # UNSUPPORTED_MSG
          [] input.category = "Impl" ->
               \/ output.tag = "Ok" /\ output.val.kind = "impl"
               \/ output.tag = "Panic"
          [] OTHER ->
               /\ output.tag = "Err"
               /\ output.span = <<>>
               /\ output.msg = UNSUPPORTED_MSG

\* a struct was handed to the entry point
C7_Witness ==
    /\ input # NoInput
    /\ input.category = "Struct"
    /\ output.tag = "Err"

(***************************************************************************)
(* C8: the companion module's name is the fixed prefix followed by the     *)
(* interface name, in handle_trait and in handle_impl alike: the name an   *)
(* implementation refers to is the name of an emitted module exactly when  *)
(* both are for the same interface name, and modules of different          *)
(* interface names never share a name.                                     *)
(***************************************************************************)
C8_CompanionNaming ==
    /\ \A m1, m2 \in modules :
          (m1.ident = m2.ident) <=> (m1.interface = m2.interface)
    /\ (TraitRun /\ output.tag = "Ok") =>
          output.val.mod.ident = "openrpc_schema_" \o input.node.ident
    /\ (ImplRun /\ output.tag = "Ok") =>
          LET items == output.val.rpc_impl.items
              call  == items[Len(items)].block.stmts[1].call
              n     == input.node.trait_.path[1]
          IN  /\ call[2] = "openrpc_schema_" \o n
              /\ \A m \in modules : (m.interface = n) <=> (m.ident = call[2])

\* an implementation of Foo is rewritten in a crate that holds the
\* companion modules of Foo and of Bar
C8_Witness ==
    /\ ImplRun
    /\ output.tag = "Ok"
    /\ input.node.trait_.path = <<"Foo">>
    /\ \E m \in modules : m.interface = "Foo"
    /\ \E m \in modules : m.interface = "Bar"

(***************************************************************************)
(* C9: for an implementation of a named interface that the Interface       *)
(* Rewriter processed, handle_impl succeeds and appends exactly one schema *)
(* procedure whose body is one call, and the path of that call resolves to *)
(* the companion module emitted for the interface.  Stated as the claim.   *)
(***************************************************************************)
C9_DelegationResolves ==
    (ImplRun /\ input.node.trait_.some) =>
        LET path == input.node.trait_.path
            n == path[Len(path)]
            emitted == { m \in modules : m.interface = n }
        IN  (Cardinality(emitted) = 1) =>
              /\ output.tag = "Ok"
              /\ LET items == output.val.rpc_impl.items
                     st == items[Len(items)]
                 IN  /\ Cardinality(SchemaItems(items)) = 1
                     /\ Len(st.block.stmts) = 1
                     /\ \A m \in emitted :
                          Resolves(input.scope, st.block.stmts[1].call, m)

(***************************************************************************)
(* C10: for an interface without annotated procedures the registration     *)
(* list is empty, the synthesized routine lists no method, and the emitted *)
(* interface is the original, member by member and in order, followed by   *)
(* one body-less schema signature whose only input is the self reference.  *)
(***************************************************************************)
C10_NoAnnotatedProcedures ==
    (TraitRun /\ \A it \in Range(input.node.items) : ~IsAnnotated(it)) =>
        /\ method_registrations.tag = "Ok"
        /\ method_registrations.val = <<>>
        /\ output.tag = "Ok"
        /\ output.val.mod.items[1].methods = <<>>
        /\ LET before == input.node
               after  == output.val.rpc_trait
               n      == Len(before.items)
           IN  /\ after.ident = before.ident
               /\ Len(after.items) = n + 1
               /\ SubSeq(after.items, 1, n) = before.items
               /\ after.items[n + 1].kind = "Method"
               /\ after.items[n + 1].ident = "schema"
               /\ after.items[n + 1].inputs = <<"&self">>
               /\ ~after.items[n + 1].block.some

\* an interface of an unannotated procedure and the Metadata type
C10_Witness ==
    /\ TraitRun
    /\ output.tag = "Ok"
    /\ Len(input.node.items) = 2
    /\ input.node.items[1].kind = "Method"
    /\ input.node.items[1].attrs # <<>>
    /\ ~IsAnnotated(input.node.items[1])
    /\ input.node.items[2].kind = "Type"
    /\ input.node.items[2].ident = "Metadata"

====
